---- MODULE Spec2Model ----
(***************************************************************************)
(* Classroom ("aula") management: the request handlers of                  *)
(* api/endpoints/aulas.py, the business rules of services/aula_service.py  *)
(* and the storage operations of repositories/base.py and                  *)
(* repositories/aula_repository.py over the table of models/aula.py.       *)
(*                                                                         *)
(* A string is a sequence of one-character strings, so that str.upper()    *)
(* and the regular expression of _validate_codigo_format are computed      *)
(* character by character.  The table `aulas` compares strings exactly:    *)
(* Column(String) has no length and no collation (models/aula.py:14), which *)
(* is the binary comparison of SQLite and PostgreSQL.                      *)
(***************************************************************************)
EXTENDS Integers, Sequences, FiniteSets, TLC

VARIABLES
    aulas,   \* the rows of table "aulas": a set of records, id is the primary key
    op,      \* the handler that ran last
    req,     \* its request
    res,     \* its response
    clients  \* the requests in progress when requests run concurrently

vars == <<aulas, op, req, res, clients>>

(***************************************************************************)
(* Bounds of the model.                                                    *)
(***************************************************************************)
\* ids the database hands out are 1..MaxId, so the table holds at most MaxId rows
MaxId == 2

Ids == 1..MaxId

(***************************************************************************)
(* Values.                                                                 *)
(***************************************************************************)
\* Optional[T]: Python's None is the empty tuple, a value v is <<v>>.  Request
\* fields, the results of .first() and the nullable column hold such values.
None == <<>>
Some(v) == <<v>>
val(x) == x[1]

TEORIA == "TEORIA"
LABORATORIO == "LABORATORIO"
SEMINARIO == "SEMINARIO"
TipoAula == {TEORIA, LABORATORIO, SEMINARIO}

NL == "\n"
Digits == {"0", "1", "2", "3", "4", "5", "6", "7", "8", "9"}

Upper ==
    <<"A", "B", "C", "D", "E", "F", "G", "H", "I", "J", "K", "L", "M",
      "N", "O", "P", "Q", "R", "S", "T", "U", "V", "W", "X", "Y", "Z">>
Lower ==
    <<"a", "b", "c", "d", "e", "f", "g", "h", "i", "j", "k", "l", "m",
      "n", "o", "p", "q", "r", "s", "t", "u", "v", "w", "x", "y", "z">>

\* str.upper() on one character; the modelled alphabet is ASCII
upper_char(c) ==
    IF \E i \in DOMAIN Lower : Lower[i] = c
    THEN Upper[CHOOSE i \in DOMAIN Lower : Lower[i] = c]
    ELSE c

\* the class [A-Z]
UpperLetters == {Upper[i] : i \in DOMAIN Upper}

\* str.upper()
upper(s) == [i \in 1..Len(s) |-> upper_char(s[i])]

\* str.lower() on one character, as lower() of the database does it
lower_char(c) ==
    IF \E i \in DOMAIN Upper : Upper[i] = c
    THEN Lower[CHOOSE i \in DOMAIN Upper : Upper[i] = c]
    ELSE c

\* lower() of the database
lower(s) == [i \in 1..Len(s) |-> lower_char(s[i])]

\* the characters of the model in code point order
Ascii ==
    <<NL, " ", "%", "-">>
    \o <<"0", "1", "2", "3", "4", "5", "6", "7", "8", "9">>
    \o Upper \o <<"_">> \o Lower

\* ord(c)
ord(c) == CHOOSE i \in DOMAIN Ascii : Ascii[i] = c

\* a < b for strings: the binary comparison of the database
RECURSIVE str_lt(_, _)
str_lt(a, b) ==
    IF b = <<>> THEN FALSE
    ELSE IF a = <<>> THEN TRUE
    ELSE IF Head(a) # Head(b) THEN ord(Head(a)) < ord(Head(b))
    ELSE str_lt(Tail(a), Tail(b))

\* the codes the requests use
C_A101 == <<"A", "-", "1", "0", "1">>
C_a101 == <<"a", "-", "1", "0", "1">>
C_B202 == <<"B", "-", "2", "0", "2">>
C_A1NL == <<"A", "-", "1", NL>>
C_AB101 == <<"A", "B", "-", "1", "0", "1">>
C_A1000 == <<"A", "-", "1", "0", "0", "0">>
C_A101x == <<"A", "1", "0", "1">>
C_1A == <<"1", "-", "A">>
C_Empty == <<>>
C_b1 == <<"b", "-", "1">>

\* the locations and the equipment the requests use
U_EdificioA == <<"E", "d", "i", "f", "i", "c", "i", "o", " ", "A">>
U_EdificioB == <<"E", "d", "i", "f", "i", "c", "i", "o", " ", "B">>
E_Pizarra == <<"P", "i", "z", "a", "r", "r", "a">>

(***************************************************************************)
(* Responses.                                                              *)
(***************************************************************************)
Ok(v) == [kind |-> "ok", value |-> v]
Err(k) == [kind |-> k, value |-> None]
\* an exception raised with a message
Fail(k, detail) == [kind |-> k, value |-> None, detail |-> detail]

\* the messages of the ValidationException raised by AulaService (written
\* here without their accents)
CapacidadMayorA0 == "La capacidad debe ser mayor a 0"
CapacidadMaxima500 == "La capacidad maxima permitida es 500 estudiantes"
FormatoCodigo ==
    "El codigo del aula debe seguir el formato: [LETRA]-[NUMERO] (ej: A-101)"

\* core/exceptions.py
AulaNotFoundException == "NotFound"
AulaCodigoExistsException == "Conflict"
ValidationException == "ValidationException"
\* pydantic rejects the request body before the service is called
RequestValidationError == "RequestValidationError"
\* sqlalchemy.exc.IntegrityError raised by commit(), not caught anywhere
IntegrityError == "IntegrityError"
\* sqlalchemy.orm.exc.StaleDataError raised by commit() when the UPDATE of a
\* row matches no row, not caught anywhere
StaleDataError == "StaleDataError"
\* sqlalchemy.exc.InvalidRequestError raised by refresh() when the row is
\* gone, not caught anywhere
InvalidRequestError == "InvalidRequestError"
\* pydantic.ValidationError raised by AulaResponse.model_validate(None), not
\* caught anywhere
ResponseValidationError == "pydantic.ValidationError"

\* the two ways a request fails validation
IsValidationError(k) == k \in {ValidationException, RequestValidationError}
\* the typed errors of the business layer and of the request schema
IsTypedError(k) ==
    k \in {AulaNotFoundException, AulaCodigoExistsException,
           ValidationException, RequestValidationError}

(***************************************************************************)
(* Storage: models/aula.py and repositories/base.py.                       *)
(* A row is a function from column names to values; a column that is NULL  *)
(* is not in the row's domain.                                             *)
(***************************************************************************)
Columns == {"codigo", "capacidad", "tipo", "ubicacion", "equipamiento"}

IdsOf(s) == {a.id : a \in s}

\* the value of column f of a row, None when it is NULL
col(row, f) == IF f \in DOMAIN row THEN Some(row[f]) ELSE None

\* setattr(db_obj, field, value) for every item of obj_in
setattrs(db_obj, obj_in) ==
    LET old == DOMAIN db_obj \ DOMAIN obj_in
        new == {f \in DOMAIN obj_in : obj_in[f] # None}
    IN [f \in old \cup new |-> IF f \in new THEN val(obj_in[f]) ELSE db_obj[f]]

\* mutant of NotNullOk: the columns are declared nullable
NotNullOk_nullable(row) == TRUE

\* nullable=False on codigo, capacidad, tipo, ubicacion
NotNullOk(row) == {"codigo", "capacidad", "tipo", "ubicacion"} \subseteq DOMAIN row

\* mutant of UniqueOk: the column is declared without unique=True
UniqueOk_off(s, row) == TRUE

\* unique=True on codigo: no other row holds the code of `row` (NULLs never clash)
UniqueOk(s, row) ==
    \A a \in s :
        (a.id # row.id /\ col(row, "codigo") # None)
            => col(a, "codigo") # col(row, "codigo")

\* what commit() accepts
ConstraintsOk(s, row) == NotNullOk(row) /\ UniqueOk(s, row)

\* BaseRepository.get: query(...).filter(id == id).first()
get(s, id) ==
    IF \E a \in s : a.id = id THEN Some(CHOOSE a \in s : a.id = id) ELSE None

\* AulaRepository.get_by_codigo: filter(Aula.codigo == codigo).first()
get_by_codigo(s, codigo) ==
    IF \E a \in s : col(a, "codigo") = Some(codigo)
    THEN Some(CHOOSE a \in s : col(a, "codigo") = Some(codigo))
    ELSE None

\* mutant of create: a commit the table refuses is reported as Conflict
create_reports_conflict(s, obj_in, id) ==
    LET db_obj == setattrs([f \in {"id"} |-> id], obj_in) IN
    IF ConstraintsOk(s, db_obj)
    THEN [store |-> s \cup {db_obj}, res |-> Ok(db_obj)]
    ELSE [store |-> s, res |-> Err(AulaCodigoExistsException)]

\* BaseRepository.create: add, commit, refresh; id is the key the database assigns
create(s, obj_in, id) ==
    LET db_obj == setattrs([f \in {"id"} |-> id], obj_in) IN
    IF ConstraintsOk(s, db_obj)
    THEN [store |-> s \cup {db_obj}, res |-> Ok(db_obj)]
    ELSE [store |-> s, res |-> Err(IntegrityError)]

\* BaseRepository.update: get, setattr each item, commit, refresh
update(s, id, obj_in) ==
    LET found == get(s, id) IN
    IF found = None THEN [store |-> s, res |-> Ok(None)]
    ELSE LET db_obj == setattrs(val(found), obj_in) IN
         IF ConstraintsOk(s, db_obj)
         THEN [store |-> (s \ {val(found)}) \cup {db_obj}, res |-> Ok(db_obj)]
         ELSE [store |-> s, res |-> Err(IntegrityError)]

\* mutant of delete: the row is looked up and True is returned, nothing is removed
delete_keeps_row(s, id) ==
    LET found == get(s, id) IN
    IF found = None THEN [store |-> s, res |-> Ok(FALSE)]
    ELSE [store |-> s, res |-> Ok(TRUE)]

\* BaseRepository.delete: get, delete, commit
delete(s, id) ==
    LET found == get(s, id) IN
    IF found = None THEN [store |-> s, res |-> Ok(FALSE)]
    ELSE [store |-> s \ {val(found)}, res |-> Ok(TRUE)]

(***************************************************************************)
(* Business rules: services/aula_service.py.                               *)
(***************************************************************************)
\* re.fullmatch of [A-Z]-\d{1,3}
MatchesLetterNumber(t) ==
    /\ Len(t) >= 3
    /\ Len(t) <= 5
    /\ t[1] \in UpperLetters
    /\ t[2] = "-"
    /\ \A i \in 3..Len(t) : t[i] \in Digits

\* re.match(r'^[A-Z]-\d{1,3}$', t): `$` matches at the end of the string and
\* also just before a newline that ends the string
re_match(t) ==
    \/ MatchesLetterNumber(t)
    \/ /\ Len(t) >= 1
       /\ t[Len(t)] = NL
       /\ MatchesLetterNumber(SubSeq(t, 1, Len(t) - 1))

\* AulaService._validate_codigo_format
_validate_codigo_format(codigo) == re_match(upper(codigo))

(***************************************************************************)
(* Request schemas: schemas/aula.py.  A request body is a function from    *)
(* the field names it mentions to Optional values.                         *)
(***************************************************************************)
\* AulaCreate (AulaBase): every field but equipamiento is required and not
\* null, capacidad: int = Field(..., gt=0)
AulaCreate(body) ==
    /\ DOMAIN body \subseteq Columns
    /\ \A f \in Columns \ {"equipamiento"} : f \in DOMAIN body /\ body[f] # None
    /\ val(body.capacidad) > 0

\* AulaUpdate: every field is optional and may be null,
\* capacidad: Optional[int] = Field(None, gt=0)
AulaUpdate(body) ==
    /\ DOMAIN body \subseteq Columns
    /\ ("capacidad" \in DOMAIN body /\ body.capacidad # None)
           => val(body.capacidad) > 0

\* the pydantic object built from a body: a field the body leaves out takes
\* its default None, and model_fields_set remembers which ones were given
BaseModel(body) ==
    [fields |-> [f \in Columns |-> IF f \in DOMAIN body THEN body[f] ELSE None],
     fields_set |-> DOMAIN body]

\* mutant of model_dump: exclude_unset is ignored, every field is dumped
model_dump_all(obj, exclude_unset) == [f \in Columns |-> obj.fields[f]]

\* BaseModel.model_dump(exclude_unset=...)
model_dump(obj, exclude_unset) ==
    [f \in (IF exclude_unset THEN obj.fields_set ELSE Columns) |-> obj.fields[f]]

(***************************************************************************)
(* Business rules, continued.                                              *)
(***************************************************************************)
\* AulaService.get_aula
get_aula(s, aula_id) ==
    LET aula == get(s, aula_id) IN
    IF aula = None THEN Err(AulaNotFoundException) ELSE Ok(val(aula))

\* mutant of create_aula: the upper capacity bound is tested with >= 500
create_aula_ge500(s, aula_in, id) ==
    IF get_by_codigo(s, val(aula_in.fields.codigo)) # None
    THEN [store |-> s, res |-> Err(AulaCodigoExistsException)]
    ELSE IF val(aula_in.fields.capacidad) <= 0
    THEN [store |-> s, res |-> Fail(ValidationException, CapacidadMayorA0)]
    ELSE IF val(aula_in.fields.capacidad) >= 500
    THEN [store |-> s, res |-> Fail(ValidationException, CapacidadMaxima500)]
    ELSE IF ~_validate_codigo_format(val(aula_in.fields.codigo))
    THEN [store |-> s, res |-> Fail(ValidationException, FormatoCodigo)]
    ELSE create(s, model_dump(aula_in, FALSE), id)

\* mutant of create_aula: the row is inserted before the format rule is applied
create_aula_insert_first(s, aula_in, id) ==
    IF get_by_codigo(s, val(aula_in.fields.codigo)) # None
    THEN [store |-> s, res |-> Err(AulaCodigoExistsException)]
    ELSE IF val(aula_in.fields.capacidad) <= 0
    THEN [store |-> s, res |-> Fail(ValidationException, CapacidadMayorA0)]
    ELSE IF val(aula_in.fields.capacidad) > 500
    THEN [store |-> s, res |-> Fail(ValidationException, CapacidadMaxima500)]
    ELSE LET out == create(s, model_dump(aula_in, FALSE), id) IN
         IF ~_validate_codigo_format(val(aula_in.fields.codigo))
         THEN [store |-> out.store, res |-> Fail(ValidationException, FormatoCodigo)]
         ELSE out

\* mutant of create_aula: the capacity rules are applied before the
\* uniqueness rule
create_aula_capacity_first(s, aula_in, id) ==
    IF val(aula_in.fields.capacidad) <= 0
    THEN [store |-> s, res |-> Fail(ValidationException, CapacidadMayorA0)]
    ELSE IF val(aula_in.fields.capacidad) > 500
    THEN [store |-> s, res |-> Fail(ValidationException, CapacidadMaxima500)]
    ELSE IF get_by_codigo(s, val(aula_in.fields.codigo)) # None
    THEN [store |-> s, res |-> Err(AulaCodigoExistsException)]
    ELSE IF ~_validate_codigo_format(val(aula_in.fields.codigo))
    THEN [store |-> s, res |-> Fail(ValidationException, FormatoCodigo)]
    ELSE create(s, model_dump(aula_in, FALSE), id)

\* AulaService.create_aula; id is the key the database will assign
create_aula(s, aula_in, id) ==
    IF get_by_codigo(s, val(aula_in.fields.codigo)) # None
    THEN [store |-> s, res |-> Err(AulaCodigoExistsException)]
    ELSE IF val(aula_in.fields.capacidad) <= 0
    THEN [store |-> s, res |-> Fail(ValidationException, CapacidadMayorA0)]
    ELSE IF val(aula_in.fields.capacidad) > 500
    THEN [store |-> s, res |-> Fail(ValidationException, CapacidadMaxima500)]
    ELSE IF ~_validate_codigo_format(val(aula_in.fields.codigo))
    THEN [store |-> s, res |-> Fail(ValidationException, FormatoCodigo)]
    ELSE create(s, model_dump(aula_in, FALSE), id)

\* `if aula_in.codigo`: None and the empty string are falsy
Truthy(x) == x # None /\ val(x) # <<>>

\* mutant of update_aula: a supplied codigo must pass the format rule
update_aula_with_format(s, aula_id, aula_in) ==
    LET existing_aula == get(s, aula_id)
        codigo == aula_in.fields.codigo
        capacidad == aula_in.fields.capacidad
    IN
    IF existing_aula = None
    THEN [store |-> s, res |-> Err(AulaNotFoundException)]
    ELSE IF /\ Truthy(codigo)
            /\ codigo # col(val(existing_aula), "codigo")
            /\ get_by_codigo(s, val(codigo)) # None
    THEN [store |-> s, res |-> Err(AulaCodigoExistsException)]
    ELSE IF capacidad # None /\ val(capacidad) <= 0
    THEN [store |-> s, res |-> Fail(ValidationException, CapacidadMayorA0)]
    ELSE IF capacidad # None /\ val(capacidad) > 500
    THEN [store |-> s, res |-> Fail(ValidationException, CapacidadMaxima500)]
    ELSE IF codigo # None /\ ~_validate_codigo_format(val(codigo))
    THEN [store |-> s, res |-> Fail(ValidationException, FormatoCodigo)]
    ELSE update(s, aula_id, model_dump(aula_in, TRUE))

\* AulaService.update_aula
update_aula(s, aula_id, aula_in) ==
    LET existing_aula == get(s, aula_id)
        codigo == aula_in.fields.codigo
        capacidad == aula_in.fields.capacidad
    IN
    IF existing_aula = None
    THEN [store |-> s, res |-> Err(AulaNotFoundException)]
    ELSE IF /\ Truthy(codigo)
            /\ codigo # col(val(existing_aula), "codigo")
            /\ get_by_codigo(s, val(codigo)) # None
    THEN [store |-> s, res |-> Err(AulaCodigoExistsException)]
    ELSE IF capacidad # None /\ val(capacidad) <= 0
    THEN [store |-> s, res |-> Fail(ValidationException, CapacidadMayorA0)]
    ELSE IF capacidad # None /\ val(capacidad) > 500
    THEN [store |-> s, res |-> Fail(ValidationException, CapacidadMaxima500)]
    ELSE update(s, aula_id, model_dump(aula_in, TRUE))

\* AulaService.delete_aula
delete_aula(s, aula_id) ==
    LET aula == get(s, aula_id) IN
    IF aula = None
    THEN [store |-> s, res |-> Err(AulaNotFoundException)]
    ELSE delete(s, aula_id)

(***************************************************************************)
(* Availability: AulaRepository.get_available_for_capacity and the 10 %    *)
(* buffer of AulaService.get_available_for_capacity.                       *)
(***************************************************************************)
\* the sequences that list every row of set F once
Listings(F) ==
    {q \in [1..Cardinality(F) -> F] :
        \A i \in DOMAIN q : \A j \in DOMAIN q : q[i] = q[j] => i = j}

\* AulaRepository.get_available_for_capacity: the results the query may
\* return; order_by(capacidad.asc()) leaves the order of equal capacities open
AulaRepository_get_available_for_capacity(s, capacidad_requerida, tipo) ==
    LET F == {a \in s :
                /\ a.capacidad >= capacidad_requerida
                /\ tipo # None => a.tipo = val(tipo)}
    IN {q \in Listings(F) :
            \A i \in DOMAIN q : \A j \in DOMAIN q :
                i < j => q[i].capacidad <= q[j].capacidad}

\* The float 1.1 is not 11/10 but the binary fraction next to it, which lies
\* above 11/10 (by 2^-50 / 10 as a double).  The model keeps 20 fractional
\* bits instead of 52: 1.1 is Float_1_1 / Float_1, the fraction of that grid
\* next above 11/10.
Float_1_1 == 1153434
Float_1 == 1048576

\* int(capacidad_requerida * 1.1): the product truncated toward zero
capacidad_con_buffer(capacidad_requerida) ==
    (capacidad_requerida * Float_1_1) \div Float_1

\* mutant of get_available_for_capacity: the buffer is not applied
get_available_for_capacity_no_buffer(s, capacidad_requerida, tipo) ==
    AulaRepository_get_available_for_capacity(s, capacidad_requerida, tipo)

\* AulaService.get_available_for_capacity
get_available_for_capacity(s, capacidad_requerida, tipo) ==
    AulaRepository_get_available_for_capacity(
        s, capacidad_con_buffer(capacidad_requerida), tipo)

(***************************************************************************)
(* Search: AulaRepository.search and AulaService.search_aulas.             *)
(***************************************************************************)
\* value LIKE pattern: % stands for any run of characters, _ for any one
\* character, every other character for itself
RECURSIVE like(_, _)
like(value, pattern) ==
    IF pattern = <<>> THEN value = <<>>
    ELSE IF Head(pattern) = "%"
    THEN like(value, Tail(pattern)) \/ (value # <<>> /\ like(Tail(value), pattern))
    ELSE /\ value # <<>>
         /\ Head(pattern) = "_" \/ Head(pattern) = Head(value)
         /\ like(Tail(value), Tail(pattern))

\* Column.ilike(other): lower(column) LIKE lower(other); NULL is like nothing
ilike(column, other) ==
    column # None /\ like(lower(val(column)), lower(other))

\* f"%{x}%"
percent(x) == <<"%">> \o x \o <<"%">>

\* AulaRepository.search: the filtered rows in the order of their codes
search(s, codigo, tipo, capacidad_min, capacidad_max, ubicacion, equipamiento) ==
    LET F == {a \in s :
                /\ Truthy(codigo) => ilike(col(a, "codigo"), percent(val(codigo)))
                /\ tipo # None => col(a, "tipo") = tipo
                /\ capacidad_min # None => a.capacidad >= val(capacidad_min)
                /\ capacidad_max # None => a.capacidad <= val(capacidad_max)
                /\ Truthy(ubicacion)
                      => ilike(col(a, "ubicacion"), percent(val(ubicacion)))
                /\ Truthy(equipamiento)
                      => ilike(col(a, "equipamiento"), percent(val(equipamiento)))}
    IN {q \in Listings(F) :
            \A i \in DOMAIN q : \A j \in DOMAIN q :
                i < j => ~str_lt(q[j].codigo, q[i].codigo)}

\* the search filters of a request: six optional fields
AulaSearch(codigo, tipo, capacidad_min, capacidad_max, ubicacion, equipamiento) ==
    [codigo |-> codigo, tipo |-> tipo, capacidad_min |-> capacidad_min,
     capacidad_max |-> capacidad_max, ubicacion |-> ubicacion,
     equipamiento |-> equipamiento]

\* AulaService.search_aulas
search_aulas(s, search_params) ==
    search(s, search_params.codigo, search_params.tipo,
           search_params.capacidad_min, search_params.capacidad_max,
           search_params.ubicacion, search_params.equipamiento)

(***************************************************************************)
(* Statistics: AulaRepository.count_by_tipo and get_statistics.            *)
(***************************************************************************)
\* mutant of count_by_tipo: the filter on tipo is left out
count_by_tipo_all(s, tipo) == Cardinality(s)

\* AulaRepository.count_by_tipo
count_by_tipo(s, tipo) == Cardinality({a \in s : col(a, "tipo") = Some(tipo)})

\* the sum of column capacidad over the rows of s
RECURSIVE sum_capacidad(_)
sum_capacidad(s) ==
    IF s = {} THEN 0
    ELSE LET a == CHOOSE x \in s : TRUE
         IN a.capacidad + sum_capacidad(s \ {a})

\* the aggregate query: count(id), avg, max and min of capacidad.  Over no
\* rows count is 0 and the other three are NULL.  The average is kept as the
\* exact fraction <<sum, count>>.
aggregate(s) ==
    [total |-> Cardinality(s),
     capacidad_promedio |->
        IF s = {} THEN None ELSE Some(<<sum_capacidad(s), Cardinality(s)>>),
     capacidad_maxima |->
        IF s = {} THEN None
        ELSE Some(CHOOSE n \in {a.capacidad : a \in s} :
                    \A a \in s : a.capacidad <= n),
     capacidad_minima |->
        IF s = {} THEN None
        ELSE Some(CHOOSE n \in {a.capacidad : a \in s} :
                    \A a \in s : a.capacidad >= n)]

\* `x or 0` for an optional integer
or_0(x) == IF x = None \/ val(x) = 0 THEN 0 ELSE val(x)

\* float(x or 0) for an optional fraction
float_or_0(x) == IF x = None \/ val(x)[1] = 0 THEN <<0, 1>> ELSE val(x)

\* the dictionary AulaRepository.get_statistics builds from the result of
\* the aggregate query and of the three counts
statistics_dict(stats, teoria, laboratorio, seminario) ==
    [total_aulas |-> or_0(Some(stats.total)),
     capacidad_promedio |-> float_or_0(stats.capacidad_promedio),
     capacidad_maxima |-> or_0(stats.capacidad_maxima),
     capacidad_minima |-> or_0(stats.capacidad_minima),
     por_tipo |-> [teoria |-> teoria, laboratorio |-> laboratorio,
                   seminario |-> seminario]]

\* AulaRepository.get_statistics and AulaService.get_statistics when every
\* query reads the same rows
get_statistics(s) ==
    statistics_dict(aggregate(s), count_by_tipo(s, TEORIA),
                    count_by_tipo(s, LABORATORIO), count_by_tipo(s, SEMINARIO))

(***************************************************************************)
(* Requests in progress at the same time.  Every request has its own       *)
(* session (one per request), and every statement it sends reads the rows   *)
(* committed so far; a commit is one step.  What follows are the pieces of  *)
(* the service and repository methods between two statements.               *)
(***************************************************************************)
Clients == {"c1", "c2"}

\* a request in progress: pc is the statement it sends next, local what it
\* has read so far, res its response once pc is "done"
Proc(pc, o, r, local, response) ==
    [pc |-> pc, op |-> o, req |-> r, local |-> local, res |-> response]

Idle == Proc("idle", "none", None, None, None)

\* AulaService.create_aula, rules 1 to 4: the exception raised, or None
create_aula_rules(s, aula_in) ==
    IF get_by_codigo(s, val(aula_in.fields.codigo)) # None
    THEN Some(Err(AulaCodigoExistsException))
    ELSE IF val(aula_in.fields.capacidad) <= 0
    THEN Some(Fail(ValidationException, CapacidadMayorA0))
    ELSE IF val(aula_in.fields.capacidad) > 500
    THEN Some(Fail(ValidationException, CapacidadMaxima500))
    ELSE IF ~_validate_codigo_format(val(aula_in.fields.codigo))
    THEN Some(Fail(ValidationException, FormatoCodigo))
    ELSE None

\* AulaService.update_aula, the rules after the existence check: the
\* exception raised, or None
update_aula_rules(s, existing_aula, aula_in) ==
    LET codigo == aula_in.fields.codigo
        capacidad == aula_in.fields.capacidad
    IN
    IF /\ Truthy(codigo)
       /\ codigo # col(existing_aula, "codigo")
       /\ get_by_codigo(s, val(codigo)) # None
    THEN Some(Err(AulaCodigoExistsException))
    ELSE IF capacidad # None /\ val(capacidad) <= 0
    THEN Some(Fail(ValidationException, CapacidadMayorA0))
    ELSE IF capacidad # None /\ val(capacidad) > 500
    THEN Some(Fail(ValidationException, CapacidadMaxima500))
    ELSE None

\* BaseRepository.update finds no row and returns None, and
\* AulaResponse.model_validate(None) raises
update_missing == Err(ResponseValidationError)

\* BaseRepository.update, setattr and commit: db_obj holds the columns as the
\* session loaded them; the UPDATE sets the columns whose value changed and
\* must match the row
update_commit(s, id, db_obj, obj_in) ==
    LET changed == {f \in DOMAIN obj_in : obj_in[f] # col(db_obj, f)}
        found == get(s, id)
    IN
    IF changed = {} THEN [store |-> s, res |-> Ok(None)]
    ELSE IF found = None THEN [store |-> s, res |-> Err(StaleDataError)]
    ELSE LET row == setattrs(val(found), [f \in changed |-> obj_in[f]]) IN
         IF ConstraintsOk(s, row)
         THEN [store |-> (s \ {val(found)}) \cup {row}, res |-> Ok(None)]
         ELSE [store |-> s, res |-> Err(IntegrityError)]

\* Session.refresh(db_obj), then AulaResponse.model_validate
refresh(s, id) ==
    LET found == get(s, id) IN
    IF found = None THEN Err(InvalidRequestError) ELSE Ok(val(found))

\* BaseRepository.delete, delete and commit: the DELETE of a row that is
\* gone matches nothing and is not an error
delete_commit(s, id) == {a \in s : a.id # id}

(***************************************************************************)
(* Request handlers: api/endpoints/aulas.py.                               *)
(***************************************************************************)
\* the keys the database may assign to a new row; 0 stands for a key beyond
\* MaxId, which only a request that inserts nothing may be given
NewIds(s) == IF Ids \ IdsOf(s) = {} THEN {0} ELSE Ids \ IdsOf(s)

\* GET /{aula_id}
GetAula(aula_id) ==
    /\ UNCHANGED clients
    /\ aulas' = aulas
    /\ op' = "get"
    /\ req' = [aula_id |-> aula_id]
    /\ res' = get_aula(aulas, aula_id)

\* POST /
CreateAula(body) ==
    \E id \in NewIds(aulas) :
        LET out == IF AulaCreate(body)
                   THEN create_aula(aulas, BaseModel(body), id)
                   ELSE [store |-> aulas, res |-> Err(RequestValidationError)]
        IN /\ id = 0 => out.store = aulas
           /\ UNCHANGED clients
           /\ aulas' = out.store
           /\ op' = "create"
           /\ req' = [body |-> body]
           /\ res' = out.res

\* PUT /{aula_id}
UpdateAula(aula_id, body) ==
    LET out == IF AulaUpdate(body)
               THEN update_aula(aulas, aula_id, BaseModel(body))
               ELSE [store |-> aulas, res |-> Err(RequestValidationError)]
    IN /\ UNCHANGED clients
       /\ aulas' = out.store
       /\ op' = "update"
       /\ req' = [aula_id |-> aula_id, body |-> body]
       /\ res' = out.res

\* DELETE /{aula_id}
DeleteAula(aula_id) ==
    LET out == delete_aula(aulas, aula_id) IN
    /\ UNCHANGED clients
    /\ aulas' = out.store
    /\ op' = "delete"
    /\ req' = [aula_id |-> aula_id]
    /\ res' = out.res

\* GET /capacity/available: capacidad: int = Query(..., gt=0), tipo optional
GetAvailableForCapacity(capacidad, tipo) ==
    /\ UNCHANGED clients
    /\ aulas' = aulas
    /\ op' = "available"
    /\ req' = [capacidad |-> capacidad, tipo |-> tipo]
    /\ IF capacidad > 0
       THEN \E q \in get_available_for_capacity(aulas, capacidad, tipo) :
                res' = Ok(q)
       ELSE res' = Err(RequestValidationError)

\* POST /search
SearchAulas(search_params) ==
    /\ UNCHANGED clients
    /\ aulas' = aulas
    /\ op' = "search"
    /\ req' = search_params
    /\ \E q \in search_aulas(aulas, search_params) : res' = Ok(q)

\* GET /statistics/summary, no other request in progress
GetStatistics ==
    /\ UNCHANGED clients
    /\ aulas' = aulas
    /\ op' = "statistics"
    /\ req' = None
    /\ res' = Ok(get_statistics(aulas))

\* a request may start when the client has none in progress
Ready(c) == clients[c].pc \in {"idle", "done"}

\* client c goes on to statement pc, having read local
Goto(c, pc, local) ==
    clients' = [clients EXCEPT ![c] = Proc(pc, @.op, @.req, local, None)]

\* the request of client c ends with response r
Done(c, r) ==
    clients' = [clients EXCEPT ![c] = Proc("done", @.op, @.req, None, r)]

\* POST /: the body is validated and get_by_codigo reads the table
CreateBegin(c, body) ==
    /\ Ready(c)
    /\ UNCHANGED <<aulas, op, req, res>>
    /\ LET r == IF AulaCreate(body)
                THEN create_aula_rules(aulas, BaseModel(body))
                ELSE Some(Err(RequestValidationError))
       IN clients' = [clients EXCEPT ![c] =
            IF r = None
            THEN Proc("create_commit", "create", [body |-> body], None, None)
            ELSE Proc("done", "create", [body |-> body], None, val(r))]

\* POST /: BaseRepository.create adds the row and commits
CreateCommit(c) ==
    /\ clients[c].pc = "create_commit"
    /\ UNCHANGED <<op, req, res>>
    /\ \E id \in NewIds(aulas) :
        LET out == create(aulas, model_dump(BaseModel(clients[c].req.body), FALSE), id)
        IN /\ id = 0 => out.store = aulas
           /\ aulas' = out.store
           /\ IF out.res.kind = "ok"
              THEN Goto(c, "create_refresh", [id |-> id])
              ELSE Done(c, out.res)

\* POST /: BaseRepository.create refreshes the row
CreateRefresh(c) ==
    /\ clients[c].pc = "create_refresh"
    /\ UNCHANGED <<aulas, op, req, res>>
    /\ Done(c, refresh(aulas, clients[c].local.id))

\* PUT /{aula_id}: the body is validated and repository.get reads the row
UpdateBegin(c, aula_id, body) ==
    /\ Ready(c)
    /\ UNCHANGED <<aulas, op, req, res>>
    /\ LET r == [aula_id |-> aula_id, body |-> body]
           existing_aula == get(aulas, aula_id)
       IN clients' = [clients EXCEPT ![c] =
            IF ~AulaUpdate(body)
            THEN Proc("done", "update", r, None, Err(RequestValidationError))
            ELSE IF existing_aula = None
            THEN Proc("done", "update", r, None, Err(AulaNotFoundException))
            ELSE Proc("update_rules", "update", r,
                      [existing_aula |-> val(existing_aula)], None)]

\* PUT /{aula_id}: get_by_codigo reads the table, then the capacity rules
UpdateRules(c) ==
    /\ clients[c].pc = "update_rules"
    /\ UNCHANGED <<aulas, op, req, res>>
    /\ LET r == update_aula_rules(aulas, clients[c].local.existing_aula,
                                  BaseModel(clients[c].req.body))
       IN IF r = None THEN Goto(c, "update_get", clients[c].local)
          ELSE Done(c, val(r))

\* PUT /{aula_id}: BaseRepository.update reads the row again; the session
\* hands back the object it loaded before, its columns as loaded
UpdateGet(c) ==
    /\ clients[c].pc = "update_get"
    /\ UNCHANGED <<aulas, op, req, res>>
    /\ IF get(aulas, clients[c].req.aula_id) = None
       THEN Done(c, update_missing)
       ELSE Goto(c, "update_commit", clients[c].local)

\* PUT /{aula_id}: BaseRepository.update sets the attributes and commits
UpdateCommit(c) ==
    /\ clients[c].pc = "update_commit"
    /\ UNCHANGED <<op, req, res>>
    /\ LET out == update_commit(aulas, clients[c].req.aula_id,
                                clients[c].local.existing_aula,
                                model_dump(BaseModel(clients[c].req.body), TRUE))
       IN /\ aulas' = out.store
          /\ IF out.res.kind = "ok"
             THEN Goto(c, "update_refresh", None)
             ELSE Done(c, out.res)

\* PUT /{aula_id}: BaseRepository.update refreshes the row
UpdateRefresh(c) ==
    /\ clients[c].pc = "update_refresh"
    /\ UNCHANGED <<aulas, op, req, res>>
    /\ Done(c, refresh(aulas, clients[c].req.aula_id))

\* DELETE /{aula_id}: repository.get reads the row
DeleteBegin(c, aula_id) ==
    /\ Ready(c)
    /\ UNCHANGED <<aulas, op, req, res>>
    /\ clients' = [clients EXCEPT ![c] =
            IF get(aulas, aula_id) = None
            THEN Proc("done", "delete", [aula_id |-> aula_id], None,
                      Err(AulaNotFoundException))
            ELSE Proc("delete_get", "delete", [aula_id |-> aula_id], None, None)]

\* DELETE /{aula_id}: BaseRepository.delete reads the row again and returns
\* False when it is gone
DeleteGet(c) ==
    /\ clients[c].pc = "delete_get"
    /\ UNCHANGED <<aulas, op, req, res>>
    /\ IF get(aulas, clients[c].req.aula_id) = None
       THEN Done(c, Ok(FALSE))
       ELSE Goto(c, "delete_commit", None)

\* DELETE /{aula_id}: BaseRepository.delete deletes, commits and returns True
DeleteCommit(c) ==
    /\ clients[c].pc = "delete_commit"
    /\ UNCHANGED <<op, req, res>>
    /\ aulas' = delete_commit(aulas, clients[c].req.aula_id)
    /\ Done(c, Ok(TRUE))

\* GET /statistics/summary: the aggregate query
StatisticsBegin(c) ==
    /\ Ready(c)
    /\ UNCHANGED <<aulas, op, req, res>>
    /\ clients' = [clients EXCEPT ![c] =
            Proc("count_teoria", "statistics", None, [stats |-> aggregate(aulas)], None)]

\* GET /statistics/summary: count_by_tipo(TEORIA)
CountTeoria(c) ==
    /\ clients[c].pc = "count_teoria"
    /\ UNCHANGED <<aulas, op, req, res>>
    /\ Goto(c, "count_laboratorio",
            [stats |-> clients[c].local.stats,
             teoria |-> count_by_tipo(aulas, TEORIA)])

\* GET /statistics/summary: count_by_tipo(LABORATORIO)
CountLaboratorio(c) ==
    /\ clients[c].pc = "count_laboratorio"
    /\ UNCHANGED <<aulas, op, req, res>>
    /\ Goto(c, "count_seminario",
            [stats |-> clients[c].local.stats,
             teoria |-> clients[c].local.teoria,
             laboratorio |-> count_by_tipo(aulas, LABORATORIO)])

\* GET /statistics/summary: count_by_tipo(SEMINARIO) and the response
CountSeminario(c) ==
    /\ clients[c].pc = "count_seminario"
    /\ UNCHANGED <<aulas, op, req, res>>
    /\ Done(c, Ok(statistics_dict(clients[c].local.stats, clients[c].local.teoria,
                                  clients[c].local.laboratorio,
                                  count_by_tipo(aulas, SEMINARIO))))

(***************************************************************************)
(* Requests.                                                               *)
(***************************************************************************)
\* a field a body leaves out, and a field it gives (a value or null)
Absent == <<>>
Given(x) == <<x>>

\* the body that mentions the fields of `opt` that are Given
Body(opt) ==
    [f \in {g \in DOMAIN opt : opt[g] # Absent} |-> opt[f][1]]

\* an update body from one choice per field
PartialBody(codigo, capacidad, tipo, ubicacion, equipamiento) ==
    Body([codigo |-> codigo, capacidad |-> capacidad, tipo |-> tipo,
          ubicacion |-> ubicacion, equipamiento |-> equipamiento])

\* a create body with every field given
FullBody(codigo, capacidad, tipo, ubicacion, equipamiento) ==
    [codigo |-> Some(codigo), capacidad |-> Some(capacidad), tipo |-> Some(tipo),
     ubicacion |-> Some(ubicacion), equipamiento |-> equipamiento]

\* Spec: every code with a capacity in bounds, and two codes with every
\* capacity at and around the bounds
CreateBodies ==
    {FullBody(c, 500, TEORIA, U_EdificioA, None) :
        c \in {C_A101, C_a101, C_B202, C_A1NL, C_AB101, C_A1000, C_A101x, C_1A}}
    \cup {FullBody(c, n, TEORIA, U_EdificioA, None) :
            c \in {C_A101, C_B202}, n \in {-1, 0, 1, 501}}
    \cup {FullBody(C_AB101, 501, TEORIA, U_EdificioA, None)}

\* Spec: a code alone, a capacity alone, and a code together with a capacity
UpdateBodies ==
    {PartialBody(c, Absent, Absent, Absent, Absent) :
        c \in {Absent, Given(None), Given(Some(C_Empty)), Given(Some(C_A101)),
               Given(Some(C_B202))}}
    \cup {PartialBody(Absent, n, Absent, Absent, Absent) :
            n \in {Given(None), Given(Some(0)), Given(Some(1)),
                   Given(Some(500)), Given(Some(501))}}
    \cup {PartialBody(Given(Some(C_B202)), n, Absent, Absent, Absent) :
            n \in {Given(Some(0)), Given(Some(501))}}

Init ==
    /\ aulas = {}
    /\ op = "init"
    /\ req = None
    /\ res = None
    /\ clients = [c \in Clients |-> Idle]

Next ==
    \/ \E body \in CreateBodies : CreateAula(body)
    \/ \E aula_id \in Ids, body \in UpdateBodies : UpdateAula(aula_id, body)
    \/ \E aula_id \in Ids : DeleteAula(aula_id)
    \/ \E aula_id \in Ids : GetAula(aula_id)

Spec == Init /\ [][Next]_vars

\* SpecUpdate: two classrooms that differ in their code only, and updates of
\* each field alone, of no field, of null fields, and of every required field
\* together
CreateBodiesU ==
    {FullBody(c, 40, TEORIA, U_EdificioA, Some(E_Pizarra)) : c \in {C_A101, C_B202}}

UpdateBodiesU ==
    {PartialBody(Absent, Absent, Absent, Absent, Absent),
     PartialBody(Given(Some(C_B202)), Absent, Absent, Absent, Absent),
     PartialBody(Absent, Given(Some(45)), Absent, Absent, Absent),
     PartialBody(Absent, Absent, Given(Some(LABORATORIO)), Absent, Absent),
     PartialBody(Absent, Absent, Absent, Given(Some(U_EdificioB)), Absent),
     PartialBody(Absent, Absent, Absent, Absent, Given(None)),
     PartialBody(Absent, Absent, Absent, Absent, Given(Some(E_Pizarra))),
     PartialBody(Absent, Absent, Absent, Given(None), Absent),
     PartialBody(Absent, Absent, Given(None), Given(Some(U_EdificioA)), Absent),
     PartialBody(Given(Some(C_A101)), Given(Some(40)), Given(Some(TEORIA)),
                 Given(Some(U_EdificioA)), Absent)}

NextUpdate ==
    \/ \E body \in CreateBodiesU : CreateAula(body)
    \/ \E aula_id \in Ids, body \in UpdateBodiesU : UpdateAula(aula_id, body)
    \/ \E aula_id \in Ids : DeleteAula(aula_id)

SpecUpdate == Init /\ [][NextUpdate]_vars

\* SpecAvail: classrooms of two types with capacities at the thresholds that
\* the requests 36, 40, 45 and 100 turn into (39, 44, 49, 110)
CreateBodiesA ==
    {FullBody(C_A101, n, TEORIA, U_EdificioA, None) : n \in {40, 45, 49, 110}}
    \cup {FullBody(C_B202, n, LABORATORIO, U_EdificioA, None) :
            n \in {40, 45, 49, 110}}

NextAvail ==
    \/ \E body \in CreateBodiesA : CreateAula(body)
    \/ \E aula_id \in Ids : DeleteAula(aula_id)
    \/ \E capacidad \in {0, 36, 40, 45, 100},
          tipo \in {None, Some(TEORIA), Some(LABORATORIO)} :
            GetAvailableForCapacity(capacidad, tipo)

SpecAvail == Init /\ [][NextAvail]_vars

\* SpecSearch: three classrooms that differ in every column, one of them
\* without equipment; searches with no filter, with each filter alone (absent,
\* empty, zero, in another case than the stored text, made of the characters
\* % and _) and with filters together
CreateBodiesS ==
    {FullBody(C_A101, 40, TEORIA, U_EdificioA, Some(E_Pizarra)),
     FullBody(C_B202, 60, LABORATORIO, U_EdificioB, None),
     FullBody(C_b1, 50, SEMINARIO, U_EdificioB, Some(E_Pizarra))}

SearchParams ==
    {AulaSearch(codigo, None, None, None, None, None) :
        codigo \in {None, Some(C_Empty), Some(<<"a", "-", "1">>), Some(<<"-", "2">>),
                    Some(<<"_">>), Some(<<"%">>)}}
    \cup {AulaSearch(None, Some(LABORATORIO), capacidad_min, capacidad_max, None, None) :
            capacidad_min \in {None, Some(41)}, capacidad_max \in {None, Some(59)}}
    \cup {AulaSearch(None, None, capacidad_min, capacidad_max, None, None) :
            capacidad_min \in {None, Some(0), Some(41)},
            capacidad_max \in {None, Some(0), Some(59)}}
    \cup {AulaSearch(codigo, None, None, None, Some(<<"O", " ", "b">>), equipamiento) :
            codigo \in {None, Some(<<"-", "2">>)},
            equipamiento \in {None, Some(<<"P", "I", "Z">>)}}
    \cup {AulaSearch(None, None, None, None, None, equipamiento) :
            equipamiento \in {Some(C_Empty), Some(<<"P", "I", "Z">>), Some(<<"_">>)}}

NextSearch ==
    \/ \E body \in CreateBodiesS : CreateAula(body)
    \/ \E aula_id \in Ids : DeleteAula(aula_id)
    \/ \E search_params \in SearchParams : SearchAulas(search_params)

SpecSearch == Init /\ [][NextSearch]_vars

\* SpecStats: classrooms of every type, two of them of the same type and two
\* of the same capacity, updates of capacity and of type, and statistics
CreateBodiesT ==
    {FullBody(c, x[1], x[2], U_EdificioA, None) :
        c \in {C_A101, C_B202, C_b1},
        x \in {<<40, TEORIA>>, <<60, LABORATORIO>>, <<50, SEMINARIO>>,
               <<60, TEORIA>>}}

UpdateBodiesT ==
    {PartialBody(Absent, Given(Some(45)), Absent, Absent, Absent),
     PartialBody(Absent, Absent, Given(Some(SEMINARIO)), Absent, Absent)}

NextStats ==
    \/ \E body \in CreateBodiesT : CreateAula(body)
    \/ \E aula_id \in Ids, body \in UpdateBodiesT : UpdateAula(aula_id, body)
    \/ \E aula_id \in Ids : DeleteAula(aula_id)
    \/ GetStatistics

SpecStats == Init /\ [][NextStats]_vars

\* SpecCodigo: two classrooms, and updates that give a code (null, empty,
\* well formed, malformed, held by the other classroom or not), a capacity
\* (in bounds, above 500), or both
CreateBodiesC ==
    {FullBody(c, 40, TEORIA, U_EdificioA, None) : c \in {C_A101, C_B202}}

UpdateBodiesC ==
    {PartialBody(c, Absent, Absent, Absent, Absent) :
        c \in {Given(None), Given(Some(C_Empty)), Given(Some(C_A101)),
               Given(Some(C_B202)), Given(Some(C_AB101))}}
    \cup {PartialBody(c, n, Absent, Absent, Absent) :
            c \in {Absent, Given(Some(C_B202)), Given(Some(C_AB101))},
            n \in {Given(Some(45)), Given(Some(501))}}

NextCodigo ==
    \/ \E body \in CreateBodiesC : CreateAula(body)
    \/ \E aula_id \in Ids, body \in UpdateBodiesC : UpdateAula(aula_id, body)
    \/ \E aula_id \in Ids : DeleteAula(aula_id)

SpecCodigo == Init /\ [][NextCodigo]_vars

\* SpecRace: two clients whose requests run statement by statement: creates
\* of two codes, updates of the code and of the location, deletes, statistics
CreateBodiesR ==
    {FullBody(C_A101, 40, TEORIA, U_EdificioA, None),
     FullBody(C_B202, 60, LABORATORIO, U_EdificioA, None)}

UpdateBodiesR ==
    {PartialBody(Given(Some(C_B202)), Absent, Absent, Absent, Absent),
     PartialBody(Absent, Absent, Absent, Given(Some(U_EdificioB)), Absent)}

NextRace ==
    \/ \E c \in Clients, body \in CreateBodiesR : CreateBegin(c, body)
    \/ \E c \in Clients : CreateCommit(c)
    \/ \E c \in Clients : CreateRefresh(c)
    \/ \E c \in Clients, aula_id \in Ids, body \in UpdateBodiesR :
            UpdateBegin(c, aula_id, body)
    \/ \E c \in Clients : UpdateRules(c)
    \/ \E c \in Clients : UpdateGet(c)
    \/ \E c \in Clients : UpdateCommit(c)
    \/ \E c \in Clients : UpdateRefresh(c)
    \/ \E c \in Clients, aula_id \in Ids : DeleteBegin(c, aula_id)
    \/ \E c \in Clients : DeleteGet(c)
    \/ \E c \in Clients : DeleteCommit(c)
    \/ \E c \in Clients : StatisticsBegin(c)
    \/ \E c \in Clients : CountTeoria(c)
    \/ \E c \in Clients : CountLaboratorio(c)
    \/ \E c \in Clients : CountSeminario(c)

SpecRace == Init /\ [][NextRace]_vars

\* SpecRaceCreate: two clients that create and delete, statement by
\* statement
NextRaceCreate ==
    \/ \E c \in Clients, body \in CreateBodiesR : CreateBegin(c, body)
    \/ \E c \in Clients : CreateCommit(c)
    \/ \E c \in Clients : CreateRefresh(c)
    \/ \E c \in Clients, aula_id \in Ids : DeleteBegin(c, aula_id)
    \/ \E c \in Clients : DeleteGet(c)
    \/ \E c \in Clients : DeleteCommit(c)

SpecRaceCreate == Init /\ [][NextRaceCreate]_vars

(***************************************************************************)
(* Properties.                                                             *)
(***************************************************************************)
\* the code and the capacity a create request asks for
ReqCodigo(r) == val(r.body.codigo)
ReqCapacidad(r) == val(r.body.capacidad)

\* one ASCII letter of either case, a hyphen and one to three digits
WellFormedCodigo(c) ==
    /\ Len(c) \in 3..5
    /\ \E i \in DOMAIN Upper : c[1] = Upper[i] \/ c[1] = Lower[i]
    /\ c[2] = "-"
    /\ \A i \in 3..Len(c) : c[i] \in Digits

\* C1: in every reachable state no two stored classrooms have the same codigo
C1_CodigoUnique ==
    \A a \in aulas : \A b \in aulas :
        (col(a, "codigo") = col(b, "codigo")) => a = b

\* C1 witness: two classrooms are stored and an update that would have given
\* one of them the other's code (here the empty code, which the service's
\* uniqueness rule skips) has just been refused
C1_Witness ==
    /\ Cardinality(aulas) = 2
    /\ op = "update"
    /\ res.kind = IntegrityError
    /\ "codigo" \in DOMAIN req.body
    /\ req.body.codigo = Some(C_Empty)

\* C2: when a Create has just succeeded and the next request is a Create whose
\* codigo is equal to it ignoring case and whose capacidad is valid, that second
\* Create fails with Conflict and inserts nothing
C2_SecondCreateConflicts ==
    [][(/\ op = "create"
        /\ res.kind = "ok"
        /\ op' = "create"
        /\ upper(ReqCodigo(req')) = upper(ReqCodigo(req))
        /\ ReqCapacidad(req') \in 1..500)
       => (res'.kind = AulaCodigoExistsException /\ aulas' = aulas)]_vars

\* C3: after a Create that succeeded, the returned codigo is the uppercased
\* input codigo and get_by_codigo with the uppercased code finds the record
\* with the returned id
C3_CreateReturnsUppercased ==
    (op = "create" /\ res.kind = "ok")
        => /\ res.value.codigo = upper(ReqCodigo(req))
           /\ get_by_codigo(aulas, upper(ReqCodigo(req))) # None
           /\ val(get_by_codigo(aulas, upper(ReqCodigo(req)))).id = res.value.id

\* C4: a Create with an unused, well-formed codigo fails with a validation
\* error and inserts nothing when capacidad is outside 1..500, and succeeds,
\* inserting exactly the returned record, when capacidad is in 1..500
C4_CapacidadBounds ==
    [][(/\ op' = "create"
        /\ get_by_codigo(aulas, ReqCodigo(req')) = None
        /\ WellFormedCodigo(ReqCodigo(req')))
       => IF ReqCapacidad(req') \in 1..500
          THEN /\ res'.kind = "ok"
               /\ res'.value \notin aulas
               /\ res'.value.capacidad = ReqCapacidad(req')
               /\ aulas' = aulas \cup {res'.value}
          ELSE /\ IsValidationError(res'.kind)
               /\ aulas' = aulas]_vars

\* C4 witness: a Create at the upper boundary 500 has just succeeded beside a
\* classroom created at the lower boundary 1
C4_Witness ==
    /\ op = "create"
    /\ res.kind = "ok"
    /\ ReqCapacidad(req) = 500
    /\ res.value.capacidad = 500
    /\ \E a \in aulas : a.capacidad = 1

\* C5: every stored classroom has a capacidad, and it is in 1..500
C5_CapacidadInBounds ==
    \A a \in aulas :
        /\ col(a, "capacidad") # None
        /\ val(col(a, "capacidad")) \in 1..500

\* C5 witness: an Update that gave capacidad explicitly as null for a stored
\* classroom has just been refused at commit
C5_Witness ==
    /\ op = "update"
    /\ "capacidad" \in DOMAIN req.body
    /\ req.body.capacidad = None
    /\ req.aula_id \in IdsOf(aulas)
    /\ res.kind = IntegrityError

\* C6: a Create with an unused codigo and a capacidad in 1..500 succeeds when
\* the codigo is well-formed, and fails with a validation error, inserting
\* nothing, when it is not
C6_FormatIff ==
    [][(/\ op' = "create"
        /\ get_by_codigo(aulas, ReqCodigo(req')) = None
        /\ ReqCapacidad(req') \in 1..500)
       => IF WellFormedCodigo(ReqCodigo(req'))
          THEN res'.kind = "ok" /\ aulas' = aulas \cup {res'.value}
          ELSE IsValidationError(res'.kind) /\ aulas' = aulas]_vars

\* C7: Delete of an id that is not stored fails with NotFound and changes
\* nothing; Delete of a stored id returns true and removes exactly that row;
\* and an id for which Get one fails keeps failing (as the next Get one
\* reports) across every request that is not a successful Create
C7_Delete ==
    [][/\ op' = "delete" =>
            IF get(aulas, req'.aula_id) = None
            THEN res'.kind = AulaNotFoundException /\ aulas' = aulas
            ELSE /\ res' = Ok(TRUE)
                 /\ aulas' = aulas \ {val(get(aulas, req'.aula_id))}
                 /\ get_aula(aulas', req'.aula_id).kind = AulaNotFoundException
       /\ \A i \in Ids :
            (/\ get_aula(aulas, i).kind = AulaNotFoundException
             /\ ~(op' = "create" /\ res'.kind = "ok"))
                => get_aula(aulas', i).kind = AulaNotFoundException
       /\ (op' = "get" /\ req'.aula_id \notin IdsOf(aulas))
            => res'.kind = AulaNotFoundException]_vars

\* C7 witness: a Delete of a stored id has just returned true, the id is no
\* longer stored and the other classrooms still are
C7_Witness ==
    /\ op = "delete"
    /\ res = Ok(TRUE)
    /\ Cardinality(aulas) = MaxId - 1
    /\ req.aula_id \notin IdsOf(aulas)

\* C8: a successful Update keeps the id, gives every field the body mentions
\* the value the body gives (a null equipamiento clears it), keeps every field
\* the body does not mention, returns the record as stored, and changes no
\* other record
C8_UpdateFrame ==
    [][(op' = "update" /\ res'.kind = "ok")
       => /\ get(aulas, req'.aula_id) # None
          /\ get(aulas', req'.aula_id) # None
          /\ LET old == val(get(aulas, req'.aula_id))
                 new == val(get(aulas', req'.aula_id))
             IN /\ res'.value = new
                /\ aulas' \ {new} = aulas \ {old}
                /\ \A f \in Columns :
                      IF f \in DOMAIN req'.body
                      THEN col(new, f) = req'.body[f]
                      ELSE col(new, f) = col(old, f)]_vars

\* C8 witness: an Update that mentioned only ubicacion has just succeeded on a
\* classroom that has an equipamiento, while a second classroom is stored
C8_Witness ==
    /\ op = "update"
    /\ res.kind = "ok"
    /\ DOMAIN req.body = {"ubicacion"}
    /\ col(res.value, "equipamiento") # None
    /\ Cardinality(aulas) = 2

\* C9: a Create, Update or Delete that ends in NotFound, Conflict or a
\* validation error leaves the table exactly as it was
C9_ErrorsChangeNothing ==
    [][(op' \in {"create", "update", "delete"} /\ IsTypedError(res'.kind))
           => aulas' = aulas]_vars

\* C9 witness: an Update of a stored classroom has just been refused with
\* Conflict
C9_Witness ==
    /\ op = "update"
    /\ res.kind = AulaCodigoExistsException
    /\ Cardinality(aulas) = 2
ContainsIgnoreCase(text, part) ==
    \E i \in 1..(Len(text) + 1) :
        /\ i + Len(part) - 1 <= Len(text)
        /\ lower(SubSeq(text, i, i + Len(part) - 1)) = lower(part)

\* classroom a passes every filter that request r gives
SatisfiesFilters(a, r) ==
    /\ r.codigo # None
         => col(a, "codigo") # None /\ ContainsIgnoreCase(a.codigo, val(r.codigo))
    /\ r.ubicacion # None
         => col(a, "ubicacion") # None
            /\ ContainsIgnoreCase(a.ubicacion, val(r.ubicacion))
    /\ r.equipamiento # None
         => col(a, "equipamiento") # None
            /\ ContainsIgnoreCase(a.equipamiento, val(r.equipamiento))
    /\ r.tipo # None => col(a, "tipo") = r.tipo
    /\ r.capacidad_min # None => a.capacidad >= val(r.capacidad_min)
    /\ r.capacidad_max # None => a.capacidad <= val(r.capacidad_max)

\* C11: a search returns exactly the stored classrooms that pass every filter
\* given (codigo, ubicacion and equipamiento as case-insensitive substrings,
\* tipo exactly, capacidad between capacidad_min and capacidad_max, a capacity
\* filter of 0 included), each once and in ascending order of codigo
C11_SearchReturnsMatches ==
    op = "search" =>
        /\ res.kind = "ok"
        /\ {res.value[i] : i \in DOMAIN res.value}
             = {a \in aulas : SatisfiesFilters(a, req)}
        /\ \A i \in DOMAIN res.value : \A j \in DOMAIN res.value :
             i < j => str_lt(res.value[i].codigo, res.value[j].codigo)

\* C12: statistics computed with no other request in progress give the number
\* of stored classrooms, the largest and the smallest stored capacidad and
\* the number of classrooms of each type; over an empty store the total, the
\* average, the maximum, the minimum and the three counts are 0
C12_Statistics ==
    op = "statistics" =>
        LET d == res.value IN
        /\ res.kind = "ok"
        /\ d.total_aulas = Cardinality(aulas)
        /\ d.por_tipo.teoria = Cardinality({a \in aulas : a.tipo = TEORIA})
        /\ d.por_tipo.laboratorio = Cardinality({a \in aulas : a.tipo = LABORATORIO})
        /\ d.por_tipo.seminario = Cardinality({a \in aulas : a.tipo = SEMINARIO})
        /\ aulas # {} =>
             /\ \E a \in aulas : a.capacidad = d.capacidad_maxima
             /\ \E a \in aulas : a.capacidad = d.capacidad_minima
             /\ \A a \in aulas :
                  d.capacidad_minima <= a.capacidad /\ a.capacidad <= d.capacidad_maxima
        /\ aulas = {} =>
             /\ d.total_aulas = 0 /\ d.capacidad_promedio[1] = 0
             /\ d.capacidad_maxima = 0 /\ d.capacidad_minima = 0
             /\ d.por_tipo.teoria = 0 /\ d.por_tipo.laboratorio = 0
             /\ d.por_tipo.seminario = 0

\* C12 witness: statistics over two classrooms of different types and
\* capacities
C12_Witness ==
    /\ op = "statistics"
    /\ Cardinality(aulas) = 2
    /\ res.value.capacidad_maxima > res.value.capacidad_minima
    /\ res.value.por_tipo.laboratorio = 1
    /\ res.value.por_tipo.seminario = 1

\* the error of a capacity rule: the schema's gt=0 or one of the two capacity
\* messages of the service
IsCapacityError(r) ==
    \/ r.kind = RequestValidationError
    \/ r.kind = ValidationException
         /\ r.detail \in {CapacidadMayorA0, CapacidadMaxima500}

\* C13: a Create whose codigo is already stored fails with Conflict whatever
\* its capacidad and its format are, and a Create whose codigo is not stored
\* and whose capacidad is out of bounds fails with the capacity validation
\* error whatever its format is
C13_CreateRuleOrder ==
    [][op' = "create" =>
        /\ get_by_codigo(aulas, ReqCodigo(req')) # None
             => res'.kind = AulaCodigoExistsException
        /\ (/\ get_by_codigo(aulas, ReqCodigo(req')) = None
            /\ ReqCapacidad(req') <= 0 \/ ReqCapacidad(req') > 500)
             => IsCapacityError(res')]_vars

\* C13 amended: a Create whose capacidad is not positive is rejected by the
\* request schema before any rule, even when its codigo is already stored; a
\* Create with a positive capacidad whose codigo is already stored fails with
\* Conflict whatever its capacidad (above 500 included) and its format are;
\* and a Create whose codigo is not stored and whose capacidad is above 500
\* fails with the capacity ValidationException whatever its format is
C13_CreateRuleOrderAmended ==
    [][op' = "create" =>
        /\ ReqCapacidad(req') <= 0 => res'.kind = RequestValidationError
        /\ (ReqCapacidad(req') > 0 /\ get_by_codigo(aulas, ReqCodigo(req')) # None)
             => res'.kind = AulaCodigoExistsException
        /\ (ReqCapacidad(req') > 500 /\ get_by_codigo(aulas, ReqCodigo(req')) = None)
             => (res'.kind = ValidationException
                 /\ res'.detail = CapacidadMaxima500)]_vars

\* C13 witness: a Create with a stored codigo and a capacidad above 500 has
\* been refused with Conflict
C13_Witness ==
    /\ op = "create"
    /\ res.kind = AulaCodigoExistsException
    /\ ReqCapacidad(req) > 500
    /\ \E a \in aulas : a.codigo = ReqCodigo(req)

\* the field f an update body supplies with a value, None when the body
\* leaves it out or gives null
Supplied(body, f) == IF f \in DOMAIN body THEN body[f] ELSE None

\* some stored classroom other than aula_id holds the code c
HeldByOther(s, aula_id, c) == \E b \in s : b.id # aula_id /\ col(b, "codigo") = Some(c)

\* C14: an Update that reaches the service fails with NotFound when the id is
\* not stored; otherwise with Conflict when it supplies a codigo string, of
\* any value, that differs from the record's codigo and is held by another
\* stored record; otherwise with ValidationError when it supplies a capacidad
\* <= 0 or > 500; and it never fails with Conflict when it supplies the
\* record's own codigo
C14_UpdateRuleOrder ==
    [][(op' = "update" /\ AulaUpdate(req'.body)) =>
        LET existing_aula == get(aulas, req'.aula_id)
            codigo == Supplied(req'.body, "codigo")
            capacidad == Supplied(req'.body, "capacidad")
            clash == /\ codigo # None
                     /\ codigo # col(val(existing_aula), "codigo")
                     /\ HeldByOther(aulas, req'.aula_id, val(codigo))
        IN
        IF existing_aula = None THEN res'.kind = AulaNotFoundException
        ELSE /\ clash => res'.kind = AulaCodigoExistsException
             /\ (/\ ~clash
                 /\ capacidad # None
                 /\ val(capacidad) <= 0 \/ val(capacidad) > 500)
                  => IsValidationError(res'.kind)
             /\ (codigo # None /\ codigo = col(val(existing_aula), "codigo"))
                  => res'.kind # AulaCodigoExistsException]_vars

\* C15: an Update of a stored record that supplies a codigo held by no other
\* record, and nothing else that a rule or the table refuses, succeeds and
\* stores that codigo, whether or not it has the form LETTER-NUMBER
C15_UpdateSkipsFormat ==
    [][(op' = "update" /\ AulaUpdate(req'.body)) =>
        LET body == req'.body
            codigo == Supplied(body, "codigo")
            capacidad == Supplied(body, "capacidad")
        IN
        (/\ req'.aula_id \in IdsOf(aulas)
         /\ codigo # None
         /\ ~HeldByOther(aulas, req'.aula_id, val(codigo))
         /\ capacidad # None => val(capacidad) <= 500
         /\ \A f \in DOMAIN body \ {"equipamiento"} : body[f] # None)
            => /\ res'.kind = "ok"
               /\ \E a \in aulas' : a.id = req'.aula_id /\ a.codigo = val(codigo)]_vars

\* C15 witness: an Update has just stored a codigo that does not have the
\* form LETTER-NUMBER in a classroom that Create had stored
C15_Witness ==
    /\ op = "update"
    /\ res.kind = "ok"
    /\ \E a \in aulas :
         /\ a.id = req.aula_id
         /\ Supplied(req.body, "codigo") = Some(a.codigo)
         /\ a.codigo = C_AB101
         /\ ~WellFormedCodigo(a.codigo)

\* C16: two Creates of the same codigo can both read the table before either
\* inserts and both pass the uniqueness rule; a Create that has passed the
\* rule is not rejected with Conflict afterwards: its insert is attempted,
\* and when the codigo has been inserted meanwhile it is the table that
\* refuses it
C16_BothPassUniqueness ==
    [][\A c \in Clients :
        (clients[c].pc = "create_commit" /\ clients'[c].pc # "create_commit") =>
            LET codigo == ReqCodigo(clients[c].req) IN
            IF get_by_codigo(aulas, codigo) # None
            THEN /\ clients'[c].pc = "done"
                 /\ clients'[c].res.kind = IntegrityError
                 /\ aulas' = aulas
            ELSE /\ clients'[c].pc = "create_refresh"
                 /\ get_by_codigo(aulas', codigo) # None]_vars

\* C16 witness: both clients have passed the uniqueness rule with the same
\* codigo and neither has inserted
C16_Witness ==
    /\ \A c \in Clients : clients[c].pc = "create_commit"
    /\ \A c \in Clients : \A d \in Clients :
         ReqCodigo(clients[c].req) = ReqCodigo(clients[d].req)
    /\ \A c \in Clients : get_by_codigo(aulas, ReqCodigo(clients[c].req)) = None

\* C17: in every statistics response total_aulas is the sum of the three
\* counts of por_tipo, whatever other clients commit between its queries
C17_TotalIsSumOfTipos ==
    \A c \in Clients :
        (clients[c].pc = "done" /\ clients[c].op = "statistics") =>
            LET d == clients[c].res.value IN
            d.total_aulas
                = d.por_tipo.teoria + d.por_tipo.laboratorio + d.por_tipo.seminario

\* C18: every Update and every Delete ends in its success result or in one
\* of the typed errors NotFound, Conflict, ValidationError, whatever other
\* clients commit between its statements
C18_TypedOutcome ==
    \A c \in Clients :
        (clients[c].pc = "done" /\ clients[c].op \in {"update", "delete"}) =>
            LET r == clients[c].res IN
            \/ r.kind = "ok" /\ clients[c].op = "update"
            \/ r.kind = "ok" /\ clients[c].op = "delete" /\ r.value
            \/ IsTypedError(r.kind)

====
